---- MODULE Spec2Model ----
(***************************************************************************)
(* Model of simple_triple_buffer (src/src/lib.rs): one Writer and one      *)
(* Reader exchanging Arc<T> buffers through a Mutex<Option<Arc<T>>> slot   *)
(* and returning unused buffers to the Writer through an mpsc channel.     *)
(* Each thread is a program counter; every statement of write_new and      *)
(* read_newest that touches shared state is one step.                      *)
(***************************************************************************)
EXTENDS Integers, Sequences, FiniteSets, TLC

\* ------------------------------------------------------------------ bounds
\* Number of write_new calls the Writer starts (caps the version counter).
MaxWrites == 4
\* Number of buffer identities (Arc allocations) the model can tell apart.
MaxBufs == 6

BufIds == 0 .. (MaxBufs - 1)
\* Option::None for a buffer handle.
NoBuf == -1
\* Values `init` is drawn from.
InitVals == {0, 1}
\* Update callbacks write_op: each overwrites `new` as a function of `old`.
Fns == {"inc", "dbl"}
\* Construction callbacks make_buf: clone of the previous state (new_clone),
\* or a value independent of it.
MakeKinds == {"clone", "fresh"}
\* Content tag of a buffer that no update callback has written yet.
Unwritten == -1

VARIABLES
    wpc,      \* Writer: position inside write_new ("idle" between calls)
    rpc,      \* Reader: position inside read_newest ("idle" between calls)
    wprev,    \* Writer.prev_buf
    wnew,     \* write_new: local new_state (NoBuf when not held)
    wold,     \* write_new: local unused_buf returned by replace
    wf,       \* write_new: the update callback of the call in progress
    rprev,    \* Reader.prev_buf
    rnew,     \* read_newest: local new_buf returned by get
    rold,     \* read_newest: local now_unused_buf
    slot,     \* ReadUpdate.shared contents: Option<Buf<T>>
    mutex,    \* ReadUpdate.shared lock owner: "none", "W" or "R"
    chan,     \* mpsc channel unused_bufs_tx -> unused_bufs_rx
    bufs,     \* heap: buffer id -> [val: T, ver: index of the write that produced it]
    failed,   \* a debug_assert!/unwrap() of the library has failed
    makes,    \* number of make_buf invocations
    wcount,   \* number of write_new calls started
    wdone,    \* number of write_new calls returned
    npub,     \* number of ReadUpdate::replace calls done (publishes)
    fs,       \* update callbacks of the write_new calls started, in order
    hist,     \* init followed by the values the update callbacks wrote, in order
    ret,      \* what the last read_newest returned: [buf, val, ver], or NoRet
    rctx      \* circumstances of the last / current read_newest:
              \*   sd    write_new calls returned when it started
              \*   si    no write_new was in progress when it started
              \*   quiet no write_new was in progress at any time during it
              \*   cbw   the write whose update callback was running when it
              \*         started (0: none)
              \*   incb  that callback was still running when it returned
              \*   pv    version returned by the read_newest before it
              \*   pcb   cbw of the read_newest before it, if its incb held
              \*   tp    publishes done when it took from the slot
              \*   wst   what had become of the Writer when it started

vars == << wpc, rpc, wprev, wnew, wold, wf, rprev, rnew, rold, slot, mutex,
           chan, bufs, failed, makes, wcount, wdone, npub, fs, hist,
           ret, rctx >>

NoRet == [buf |-> NoBuf, val |-> 0, ver |-> Unwritten]

\* ------------------------------------------------------------ pure helpers

\* The update callbacks used: `*new = *old + 1` and `*new = *old * 2`.
ApplyFn(f, old) == IF f = "inc" THEN old + 1 ELSE old * 2

\* fn(...f1(init)...) for a sequence of update callbacks.
RECURSIVE Compose(_, _)
Compose(seq, init) ==
    IF seq = << >> THEN init
    ELSE ApplyFn(seq[Len(seq)], Compose(SubSeq(seq, 1, Len(seq) - 1), init))

\* Number of entries of the channel that are buffer b.
InChan(b) == Cardinality({i \in 1 .. Len(chan) : chan[i] = b})

One(c) == IF c THEN 1 ELSE 0

\* Arc::strong_count: the handles to buffer b held anywhere.
StrongCount(b) ==
    One(wprev = b) + One(wnew = b) + One(wold = b) + One(rprev = b)
    + One(rnew = b) + One(rold = b) + One(slot = b) + InChan(b)

\* The live T instances: allocations with at least one handle.
Live ==
    ({wprev, wnew, wold, rprev, rnew, rold, slot}
        \cup {chan[i] : i \in 1 .. Len(chan)}) \cap BufIds

\* Arc::new: a fresh allocation (the lowest identity not in use).
NewBuf == CHOOSE b \in BufIds \ Live : \A c \in BufIds \ Live : b <= c

\* Variant: make_buf is given the Reader's snapshot.
MutMakeArgReader == rprev

\* The argument of make_buf: &self.prev_buf.
MakeArg == wprev

\* Arc::weak_count: the library never calls Arc::downgrade.
WeakCount(b) == 0

\* The condition of the debug_assert!s on a pooled buffer, and of
\* Arc::get_mut returning Some: no other strong or weak handle exists.
Exclusive(b) == StrongCount(b) = 1 /\ WeakCount(b) = 0

\* Variant: get clones the resident handle and leaves it in the slot.
MutSlotKeeps(s) == s

\* Option::take: what ReadUpdate::get leaves in the slot.
SlotAfterGet(s) == NoBuf

\* Variant: read_newest sends the buffer it has just adopted to the pool.
MutNowUnusedNew(prev, new) == new

\* std::mem::replace(&mut self.prev_buf, new_buf): the handle it hands back,
\* which read_newest sends to the pool.
NowUnused(prev, new) == prev

\* Variant: read_newest keeps its old buffer instead of the one it took.
MutAdoptedKeepsPrev(prev, new) == prev

\* std::mem::replace(&mut self.prev_buf, new_buf): the new Reader.prev_buf.
Adopted(prev, new) == new

\* Variant: write_op overwrites the previous state in place.
MutWriteTargetPrev == wprev

\* Variant: write_new publishes without updating prev_buf.
MutPrevKept == wprev

\* self.prev_buf = new_state.clone(): the new Writer.prev_buf.
PrevAfterWrite == wnew

\* The buffer behind mut_ref, which write_op overwrites.
WriteTarget == wnew

\* Variant: write_op reads the scratch buffer's stale contents as `old`.
MutOldArgScratch == wnew

\* The buffer behind the first argument of write_op: &self.prev_buf.
OldArg == wprev

\* Variant: an unused handle is dropped instead of being sent to the pool.
MutSendDrops(c, b) == c

\* Sender::send on the unbounded channel: the handle is queued.
PoolAfterSend(c, b) == Append(c, b)

\* Variant: the blocking Receiver::recv, which waits for a handle.
MutRecvBlocks(c) == c # << >>

\* Receiver::try_recv never waits: it can run whatever the channel holds.
RecvReady(c) == TRUE

\* Variant: get_unused_buffer never reuses a pooled handle.
MutPoolNeverPops(c) == FALSE

\* Receiver::try_recv returns Ok exactly when the channel holds a handle.
PoolHasBuf(c) == c # << >>

\* Variant: the guard is leaked and the mutex stays locked.
MutMutexStaysLocked == mutex

\* The mutex guard is a temporary of the replace / get statement: it is
\* released when the statement ends.
MutexAfterUnlock == "none"

\* The Writer is inside the update callback: write_op has been entered
\* ("op": `new` not yet assigned; "setprev": assigned, write_new has not
\* resumed).
InCallback == wpc \in {"op", "setprev"}

\* The Writer value: in use ("alive"), abandoned inside a write_new whose
\* callback panicked ("failed"), dropped by the unwinding of that panic
\* ("unwound"), or dropped between calls ("dropped").
WriterStatus ==
    IF wpc \in {"failed", "unwound", "dropped"} THEN wpc ELSE "alive"

\* The Receiver is a field of the Writer: it lives as long as the Writer.
ReceiverAlive == WriterStatus \in {"alive", "failed"}

\* What read_newest returns: a view of Reader.prev_buf.
Snapshot(b) == [buf |-> b, val |-> bufs[b].val, ver |-> bufs[b].ver]

\* -------------------------------------------------------------------- Init

Init ==
    /\ \E v \in InitVals :
          /\ bufs = [b \in BufIds |->
                        IF b = 0 THEN [val |-> v, ver |-> 0]
                        ELSE [val |-> 0, ver |-> Unwritten]]
          /\ hist = << v >>
    /\ wpc = "idle" /\ rpc = "idle"
    /\ wprev = 0 /\ rprev = 0
    /\ wnew = NoBuf /\ wold = NoBuf /\ rnew = NoBuf /\ rold = NoBuf
    /\ wf = "inc"
    /\ slot = NoBuf
    /\ mutex = "none"
    /\ chan = << >>
    /\ failed = FALSE
    /\ makes = 0 /\ wcount = 0 /\ wdone = 0 /\ npub = 0
    /\ fs = << >>
    /\ ret = NoRet
    /\ rctx = [sd |-> 0, si |-> TRUE, quiet |-> TRUE, cbw |-> 0,
               pv |-> Unwritten, pcb |-> 0, tp |-> 0, incb |-> FALSE,
               wst |-> "alive"]

\* ---------------------------------------------------------- Writer::write_new

\* The caller invokes write_new(write_op).
W_begin ==
    /\ wpc = "idle"
    /\ wcount < MaxWrites
    /\ \E f \in Fns :
          /\ wf' = f
          /\ fs' = Append(fs, f)
    /\ wcount' = wcount + 1
    /\ wpc' = "recv"
    /\ rctx' = IF rpc # "idle" THEN [rctx EXCEPT !.quiet = FALSE] ELSE rctx
    /\ UNCHANGED << rpc, wprev, wnew, wold, rprev, rnew, rold, slot, mutex,
                    chan, bufs, failed, makes, wdone, npub, hist, ret >>

\* get_unused_buffer: unused_bufs_rx.try_recv() and the two debug_assert!s
\* (a failed assertion panics: the Writer stops at "panic").
W_try_recv ==
    /\ wpc = "recv"
    /\ RecvReady(chan)
    /\ IF PoolHasBuf(chan)
       THEN /\ wnew' = Head(chan)
            /\ chan' = Tail(chan)
            /\ failed' = (failed \/ ~Exclusive(Head(chan)))
            /\ wpc' = IF Exclusive(Head(chan)) THEN "getmut" ELSE "panic"
       ELSE /\ wpc' = "make"
            /\ UNCHANGED << wnew, chan, failed >>
    /\ UNCHANGED << rpc, wprev, wold, wf, rprev, rnew, rold, slot, mutex,
                    bufs, makes, wcount, wdone, npub, fs, hist, ret, rctx >>

\* get_unused_buffer: (self.make_buf)(&self.prev_buf), then Arc::new.
W_make ==
    /\ wpc = "make"
    /\ BufIds \ Live # {}
    /\ \E k \in MakeKinds :
          bufs' = [bufs EXCEPT ![NewBuf] =
                      [val |-> IF k = "clone" THEN bufs[MakeArg].val ELSE 0,
                       ver |-> Unwritten]]
    /\ wnew' = NewBuf
    /\ makes' = makes + 1
    /\ wpc' = "getmut"
    /\ UNCHANGED << rpc, wprev, wold, wf, rprev, rnew, rold, slot, mutex,
                    chan, failed, wcount, wdone, npub, fs, hist, ret, rctx >>

\* Arc::get_mut(&mut new_state).unwrap(): None unless new_state is the only handle.
W_get_mut ==
    /\ wpc = "getmut"
    /\ failed' = (failed \/ ~Exclusive(wnew))
    /\ wpc' = IF Exclusive(wnew) THEN "op" ELSE "panic"
    /\ UNCHANGED << rpc, wprev, wnew, wold, wf, rprev, rnew, rold, slot,
                    mutex, chan, bufs, makes, wcount, wdone, npub, fs, hist,
                    ret, rctx >>

\* write_op(&self.prev_buf, mut_ref).
W_write_op ==
    /\ wpc = "op"
    /\ bufs' = [bufs EXCEPT ![WriteTarget] =
                   [val |-> ApplyFn(wf, bufs[OldArg].val), ver |-> wcount]]
    /\ hist' = Append(hist, ApplyFn(wf, bufs[OldArg].val))
    /\ wpc' = "setprev"
    /\ UNCHANGED << rpc, wprev, wnew, wold, wf, rprev, rnew, rold, slot,
                    mutex, chan, failed, makes, wcount, wdone, npub, fs, ret,
                    rctx >>

\* self.prev_buf = new_state.clone(): the old prev_buf handle is dropped.
W_set_prev ==
    /\ wpc = "setprev"
    /\ wprev' = PrevAfterWrite
    /\ wpc' = "lock"
    /\ UNCHANGED << rpc, wnew, wold, wf, rprev, rnew, rold, slot, mutex,
                    chan, bufs, failed, makes, wcount, wdone, npub, fs, hist,
                    ret, rctx >>

\* ReadUpdate::replace: self.shared.lock().unwrap().
W_lock ==
    /\ wpc = "lock"
    /\ mutex = "none"
    /\ mutex' = "W"
    /\ wpc' = "swap"
    /\ UNCHANGED << rpc, wprev, wnew, wold, wf, rprev, rnew, rold, slot,
                    chan, bufs, failed, makes, wcount, wdone, npub, fs, hist,
                    ret, rctx >>

\* ReadUpdate::replace: std::mem::replace(&mut *guard, Some(v)).
W_swap ==
    /\ wpc = "swap"
    /\ wold' = slot
    /\ slot' = wnew
    /\ wnew' = NoBuf
    /\ npub' = npub + 1
    /\ wpc' = "unlock"
    /\ UNCHANGED << rpc, wprev, wf, rprev, rnew, rold, mutex, chan, bufs,
                    failed, makes, wcount, wdone, fs, hist, ret, rctx >>

\* ReadUpdate::replace returns (the guard is dropped); with None, write_new
\* returns.
W_unlock ==
    /\ wpc = "unlock"
    /\ mutex' = MutexAfterUnlock
    /\ IF wold # NoBuf
       THEN wpc' = "send" /\ wdone' = wdone
       ELSE wpc' = "idle" /\ wdone' = wdone + 1
    /\ UNCHANGED << rpc, wprev, wnew, wold, wf, rprev, rnew, rold, slot,
                    chan, bufs, failed, makes, wcount, npub, fs, hist, ret,
                    rctx >>

\* self.unused_bufs_tx.send(unused_buf).unwrap(); write_new returns.
W_send ==
    /\ wpc = "send"
    /\ chan' = PoolAfterSend(chan, wold)
    /\ wold' = NoBuf
    /\ wpc' = "idle"
    /\ wdone' = wdone + 1
    /\ UNCHANGED << rpc, wprev, wnew, wf, rprev, rnew, rold, slot, mutex,
                    bufs, failed, makes, wcount, npub, fs, hist, ret, rctx >>

\* --------------------------------------------------------- Reader::read_newest

\* The caller invokes read_newest().
R_begin ==
    /\ rpc = "idle"
    /\ rpc' = "lock"
    /\ rctx' = [sd    |-> wdone,
                si    |-> (wpc = "idle"),
                quiet |-> (wpc = "idle"),
                cbw   |-> IF InCallback THEN wcount ELSE 0,
                pv    |-> ret.ver,
                pcb   |-> IF rctx.incb THEN rctx.cbw ELSE 0,
                tp    |-> 0,
                incb  |-> FALSE,
                wst   |-> WriterStatus]
    /\ UNCHANGED << wpc, wprev, wnew, wold, wf, rprev, rnew, rold, slot,
                    mutex, chan, bufs, failed, makes, wcount, wdone, npub,
                    fs, hist, ret >>

\* ReadUpdate::get: self.shared.lock().unwrap().
R_lock ==
    /\ rpc = "lock"
    /\ mutex = "none"
    /\ mutex' = "R"
    /\ rpc' = "take"
    /\ UNCHANGED << wpc, wprev, wnew, wold, wf, rprev, rnew, rold, slot,
                    chan, bufs, failed, makes, wcount, wdone, npub, fs, hist,
                    ret, rctx >>

\* ReadUpdate::get: guard.take().
R_take ==
    /\ rpc = "take"
    /\ rnew' = slot
    /\ slot' = SlotAfterGet(slot)
    /\ rctx' = [rctx EXCEPT !.tp = npub]
    /\ rpc' = "unlock"
    /\ UNCHANGED << wpc, wprev, wnew, wold, wf, rprev, rold, mutex, chan,
                    bufs, failed, makes, wcount, wdone, npub, fs, hist, ret >>

\* read_newest returns &self.prev_buf.
R_return(b) ==
    /\ rpc' = "idle"
    /\ ret' = Snapshot(b)
    /\ rctx' = [rctx EXCEPT
                   !.incb = (rctx.cbw # 0 /\ InCallback /\ wcount = rctx.cbw)]

\* ReadUpdate::get returns (the guard is dropped); with None, read_newest
\* returns the buffer it already holds.
R_unlock ==
    /\ rpc = "unlock"
    /\ mutex' = MutexAfterUnlock
    /\ IF rnew = NoBuf
       THEN R_return(rprev)
       ELSE rpc' = "swap" /\ UNCHANGED << ret, rctx >>
    /\ UNCHANGED << wpc, wprev, wnew, wold, wf, rprev, rnew, rold, slot,
                    chan, bufs, failed, makes, wcount, wdone, npub, fs, hist >>

\* let now_unused_buf = std::mem::replace(&mut self.prev_buf, new_buf).
R_swap ==
    /\ rpc = "swap"
    /\ rold' = NowUnused(rprev, rnew)
    /\ rprev' = Adopted(rprev, rnew)
    /\ rnew' = NoBuf
    /\ rpc' = "send"
    /\ UNCHANGED << wpc, wprev, wnew, wold, wf, slot, mutex, chan, bufs,
                    failed, makes, wcount, wdone, npub, fs, hist, ret, rctx >>

\* self.unused_bufs_tx.send(now_unused_buf).unwrap() with the Receiver
\* alive: send returns Ok, read_newest returns.
R_send ==
    /\ rpc = "send"
    /\ ReceiverAlive
    /\ chan' = PoolAfterSend(chan, rold)
    /\ rold' = NoBuf
    /\ R_return(rprev)
    /\ UNCHANGED << wpc, wprev, wnew, wold, wf, rprev, rnew, slot, mutex,
                    bufs, failed, makes, wcount, wdone, npub, fs, hist >>

\* ------------------------------------------------------------ specification

Next ==
    \/ W_begin \/ W_try_recv \/ W_make \/ W_get_mut \/ W_write_op
    \/ W_set_prev \/ W_lock \/ W_swap \/ W_unlock \/ W_send
    \/ R_begin \/ R_lock \/ R_take \/ R_unlock \/ R_swap \/ R_send

Spec == Init /\ [][Next]_vars

\* The same program with one initial value and one update callback: no
\* step of either thread depends on the values stored in the buffers.
LiveInit == Init /\ hist = << 0 >>

LiveNext == Next /\ wf' \in {"inc"}

LiveSpec == LiveInit /\ [][LiveNext]_vars

\* The steps of a write_new call in progress, and of a read_newest call.
WriterStep ==
    \/ W_try_recv \/ W_make \/ W_get_mut \/ W_write_op \/ W_set_prev
    \/ W_lock \/ W_swap \/ W_unlock \/ W_send

ReaderStep == R_lock \/ R_take \/ R_unlock \/ R_swap \/ R_send

\* The Writer's thread keeps running: each step of write_new that stays
\* possible is taken, and Mutex::lock returns if the mutex keeps being
\* released.
WriterRuns ==
    /\ WF_vars(W_try_recv) /\ WF_vars(W_make) /\ WF_vars(W_get_mut)
    /\ WF_vars(W_write_op) /\ WF_vars(W_set_prev) /\ SF_vars(W_lock)
    /\ WF_vars(W_swap) /\ WF_vars(W_unlock) /\ WF_vars(W_send)

ReaderRuns ==
    /\ SF_vars(R_lock) /\ WF_vars(R_take) /\ WF_vars(R_unlock)
    /\ WF_vars(R_swap) /\ WF_vars(R_send)

\* A thread inside the slot's critical section leaves it.
WriterReleases == WF_vars(W_swap) /\ WF_vars(W_unlock)

ReaderReleases == WF_vars(R_take) /\ WF_vars(R_unlock)

\* ------------------------------------------------- drops and failing callbacks

\* The Writer value is dropped: its prev_buf handle, its Receiver (with the
\* handles queued in the channel) and its handle to the shared mutex go; the
\* mutex and the slot go with the last handle to them.
WriterDropped(how) ==
    /\ wpc' = how
    /\ wprev' = NoBuf
    /\ wnew' = NoBuf
    /\ chan' = << >>
    /\ slot' = IF rpc = "dropped" THEN NoBuf ELSE slot
    /\ UNCHANGED << rpc, wold, wf, rprev, rnew, rold, mutex, bufs, failed,
                    makes, wcount, wdone, npub, fs, hist, ret, rctx >>

\* The owner of the Writer drops it between two write_new calls.
W_drop ==
    /\ wpc = "idle"
    /\ WriterDropped("dropped")

\* The owner of the Reader drops it between two read_newest calls: its
\* prev_buf handle, its Sender and its handle to the shared mutex go.
R_drop ==
    /\ rpc = "idle"
    /\ rpc' = "dropped"
    /\ rprev' = NoBuf
    /\ slot' = IF ReceiverAlive THEN slot ELSE NoBuf
    /\ UNCHANGED << wpc, wprev, wnew, wold, wf, rnew, rold, mutex, chan,
                    bufs, failed, makes, wcount, wdone, npub, fs, hist, ret,
                    rctx >>

\* make_buf or write_op panics: write_new is abandoned where it stands, its
\* local new_state (if acquired) is dropped by the unwinding.
W_fail ==
    /\ wpc \in {"make", "op"}
    /\ wpc' = "failed"
    /\ wnew' = NoBuf
    /\ UNCHANGED << rpc, wprev, wold, wf, rprev, rnew, rold, slot, mutex,
                    chan, bufs, failed, makes, wcount, wdone, npub, fs, hist,
                    ret, rctx >>

\* The panic is not caught before it leaves the scope that owns the Writer
\* (the writer thread's closure in examples/counter.rs): the Writer is
\* dropped.
W_unwind ==
    /\ wpc = "failed"
    /\ WriterDropped("unwound")

\* self.unused_bufs_tx.send(now_unused_buf).unwrap() with the Receiver gone:
\* send returns Err(SendError(now_unused_buf)) and unwrap panics, after
\* prev_buf has been exchanged; the handle dies with the error value.
R_send_closed ==
    /\ rpc = "send"
    /\ ~ReceiverAlive
    /\ rpc' = "panic"
    /\ rold' = NoBuf
    /\ UNCHANGED << wpc, wprev, wnew, wold, wf, rprev, rnew, slot, mutex,
                    chan, bufs, failed, makes, wcount, wdone, npub, fs, hist,
                    ret, rctx >>

\* The program of LiveSpec whose callers may also drop either value, and
\* whose callbacks may panic.
FaultNext ==
    \/ LiveNext
    \/ W_drop \/ R_drop \/ W_fail \/ W_unwind \/ R_send_closed

FaultSpec == LiveInit /\ [][FaultNext]_vars

\* ------------------------------------------------------------------- typing

TypeOK ==
    /\ wpc \in {"idle", "recv", "make", "getmut", "op", "setprev", "lock",
                "swap", "unlock", "send", "panic"}
    /\ rpc \in {"idle", "lock", "take", "unlock", "swap", "send"}
    /\ wprev \in BufIds /\ rprev \in BufIds
    /\ {wnew, wold, rnew, rold, slot} \subseteq BufIds \cup {NoBuf}
    /\ mutex \in {"none", "W", "R"}
    /\ wcount \in 0 .. MaxWrites /\ wdone \in 0 .. wcount /\ npub \in 0 .. wcount
    /\ Len(fs) = wcount

\* The same, with the positions and the released fields the drops add.
FaultTypeOK ==
    /\ wpc \in {"idle", "recv", "make", "getmut", "op", "setprev", "lock",
                "swap", "unlock", "send", "panic", "failed", "unwound",
                "dropped"}
    /\ rpc \in {"idle", "lock", "take", "unlock", "swap", "send", "panic",
                "dropped"}
    /\ (wprev = NoBuf) <=> ~ReceiverAlive
    /\ (rprev = NoBuf) <=> (rpc = "dropped")
    /\ {wprev, rprev, wnew, wold, rnew, rold, slot} \subseteq BufIds \cup {NoBuf}
    /\ mutex \in {"none", "W", "R"}
    /\ rctx.wst \in {"alive", "failed", "unwound", "dropped"}

\* ------------------------------------------------------------------- claims

\* C1 (snapshot stability): between the return of one read_newest and the
\* start of the next, Reader.prev_buf is still the buffer that was returned
\* and the value stored in it is the value it had at the return, whatever
\* the Writer has done since.
C1_SnapshotStable ==
    (rpc = "idle" /\ ret # NoRet) =>
        (rprev = ret.buf /\ bufs[rprev].val = ret.val /\ bufs[rprev].ver = ret.ver)

\* The Reader holds a returned snapshot while the Writer has published two
\* newer ones and is has just written a third one.
C1_Witness ==
    /\ rpc = "idle" /\ ret # NoRet
    /\ npub >= ret.ver + 2
    /\ wpc = "setprev"
    /\ rprev = ret.buf

\* A read_newest has returned and the Reader is between calls.
Returned == rpc = "idle" /\ ret # NoRet

\* The value the update callback of write k wrote (k = 0: init).
Published(k) == hist[k + 1]

\* C2 (ordering): every snapshot read_newest returns is init or the result
\* of an update callback that has been published, with the value that
\* callback wrote, and it is not older than the snapshot the previous
\* read_newest returned.
C2_Ordering ==
    Returned =>
        /\ ret.ver \in 0 .. npub
        /\ ret.val = Published(ret.ver)
        /\ ret.ver >= rctx.pv

\* Two successive reads returned snapshots of different writes, the second
\* one skipping a published snapshot in between.
C2_Witness ==
    /\ Returned
    /\ rctx.pv >= 1
    /\ ret.ver >= rctx.pv + 2

\* C3 (freshness): a read_newest that starts after k write_new calls have
\* returned returns the snapshot of write k or of a later one; when no
\* write_new is in progress at any time during the read, it returns exactly
\* the snapshot of write k, the most recently published one (init if k = 0).
C3_Freshness ==
    Returned =>
        /\ ret.ver >= rctx.sd
        /\ rctx.quiet => (ret.ver = rctx.sd /\ ret.val = Published(rctx.sd))

\* A read with no write in progress returned the newest snapshot, after
\* earlier reads and at least two writes since the previous read's snapshot.
C3_Witness ==
    /\ Returned
    /\ rctx.quiet
    /\ rctx.pv >= 1
    /\ rctx.sd >= rctx.pv + 2
    /\ ret.ver = rctx.sd

\* C4 as claimed, restricted to its most favourable case: the previous
\* read_newest ran inside the update callback of write k, and this one
\* started when write k was the last write_new to have returned and no
\* write_new was in progress; it is claimed to return the value that
\* callback wrote.
C4_AsClaimed ==
    (Returned /\ rctx.pcb # 0 /\ rctx.sd = rctx.pcb /\ rctx.si) =>
        (ret.ver = rctx.pcb /\ ret.val = Published(rctx.pcb))

\* C4 (an in-progress write is invisible), amended: a read_newest that runs
\* while write k is inside its update callback returns a snapshot published
\* before write k began; the first read_newest that starts after write k
\* has returned gives the snapshot that was the most recently published
\* when it took from the slot, which is that of write k or of a later write
\* (exactly that of write k if no later write_new has published by then).
C4_InProgressInvisible ==
    Returned =>
        /\ rctx.incb => (ret.ver < rctx.cbw /\ ret.val = Published(ret.ver))
        /\ (rctx.pcb # 0 /\ rctx.sd >= rctx.pcb) =>
              /\ ret.ver = rctx.tp
              /\ ret.ver >= rctx.pcb
              /\ ret.val = Published(ret.ver)

\* The read before this one ran inside the update callback of write pcb;
\* this one started after that write returned while the Writer went on, and
\* it returned a later write's snapshot.
C4_WitnessLater ==
    /\ Returned
    /\ rctx.pcb # 0
    /\ rctx.sd = rctx.pcb
    /\ ret.ver > rctx.pcb

\* The read before this one ran inside the update callback of the second
\* write and returned the first write's snapshot; this one started after the
\* second write had returned and gives the value its callback wrote.
C4_Witness ==
    /\ Returned
    /\ rctx.pcb = 2
    /\ rctx.pv = 1
    /\ rctx.sd = 2
    /\ ret.ver = 2 /\ ret.val = Published(2)

\* A read that ran entirely inside the update callback of the second write,
\* after the callback had assigned `new`.
C4_WitnessInside ==
    /\ Returned
    /\ rctx.incb
    /\ rctx.cbw >= 2
    /\ wpc = "setprev"
    /\ ret.ver = rctx.cbw - 1

\* C5 (sequential composition): n write_new calls with update callbacks
\* f1..fn, performed before any read_newest, followed by one read_newest
\* during which no write is in progress: the read returns fn(...f1(init)...),
\* and init when n = 0.
C5_SequentialComposition ==
    (Returned /\ rctx.pv = Unwritten /\ rctx.quiet) =>
        ret.val = Compose(SubSeq(fs, 1, rctx.sd), hist[1])

\* The first read follows three writes, the third in a reused pool buffer
\* with stale contents: only two buffers were ever constructed.
C5_Witness ==
    /\ Returned
    /\ rctx.pv = Unwritten /\ rctx.quiet
    /\ rctx.sd >= 3
    /\ makes = 2
    /\ ret.val = Compose(SubSeq(fs, 1, rctx.sd), hist[1])

\* A thread between calls can start its next call; inside a call it can
\* move when one of its steps is enabled.
CanStepW == wpc = "idle" \/ ENABLED WriterStep

CanStepR == rpc = "idle" \/ ENABLED ReaderStep

\* C6 (no deadlock): in every reachable state at least one thread can take
\* a step; a thread that cannot is waiting for the slot mutex, which the
\* other thread holds and is able to release.
C6_NoDeadlock ==
    /\ CanStepW \/ CanStepR
    /\ ~CanStepW => (wpc = "lock" /\ mutex = "R" /\ CanStepR)
    /\ ~CanStepR => (rpc = "lock" /\ mutex = "W" /\ CanStepW)

\* Both threads are at the slot at once: the Reader waits for the mutex
\* while the Writer is inside the critical section of its third publish.
C6_Witness ==
    /\ rpc = "lock" /\ wpc = "swap" /\ mutex = "W"
    /\ npub = 2
    /\ ~CanStepR

\* C7 (neither side waits for the other): when the Writer's thread runs and
\* the Reader leaves the critical section whenever it is inside it, every
\* started write_new returns, whatever else the Reader does or fails to do;
\* and symmetrically for every started read_newest.
C7_NoWaiting ==
    /\ (WriterRuns /\ ReaderReleases) => ((wpc # "idle") ~> (wpc = "idle"))
    /\ (ReaderRuns /\ WriterReleases) => ((rpc # "idle") ~> (rpc = "idle"))

\* Two whole write_new calls have run and returned since the Reader took
\* from the slot, and the Reader has still not sent its old buffer.
C7_Witness ==
    /\ rpc = "send" /\ wpc = "idle"
    /\ wdone >= rctx.tp + 2

\* C8 as claimed: make_buf is invoked at most twice.
C8_AsClaimed == makes <= 2

\* The Reader is between taking from the slot and sending its old buffer.
ReaderMidCall ==
    \/ rpc \in {"unlock", "swap"} /\ rnew # NoBuf
    \/ rpc = "send"

\* C8 (construction is bounded), amended: make_buf is invoked at most three
\* times in all, and a third time only by a write_new that acquires its
\* buffer while a read_newest is between taking from the slot and sending
\* its old buffer to the pool.
C8_MakesBounded ==
    /\ [](makes <= 3)
    /\ [][(wpc = "recv" /\ wpc' = "make" /\ makes = 2) => ReaderMidCall]_vars

\* make_buf has been invoked three times.
C8_Witness == makes = 3 /\ wpc = "getmut"

\* C9 (bounded number of copies): at most 4 buffers are live in any
\* reachable state.
C9_BoundedCopies ==
    /\ Cardinality(Live) <= 4
    /\ Cardinality(Live) <= MaxBufs - 1

\* Four buffers are live: the Reader's, the Writer's newest (also in the
\* slot), one in the pool, and one held by the Reader on its way to the pool.
C9_Witness ==
    /\ Cardinality(Live) = 4
    /\ rpc = "send"
    /\ Len(chan) = 1
    /\ slot = wprev

\* C10 (exclusive mutation): no debug_assert! on a pooled buffer and no
\* Arc::get_mut(..).unwrap() ever fails, and at the moment write_op runs the
\* scratch buffer has no holder but new_state: it is not Writer.prev_buf,
\* not in the slot, not held by the Reader and not in the pool.
C10_ExclusiveMutation ==
    /\ ~failed /\ wpc # "panic"
    /\ wpc \in {"getmut", "op"} =>
          /\ wnew \in BufIds
          /\ StrongCount(wnew) = 1 /\ WeakCount(wnew) = 0
          /\ wnew \notin {wprev, slot, rprev, rnew, rold, wold}
          /\ InChan(wnew) = 0

\* write_op is about to overwrite a buffer popped from the pool that holds
\* a previously published snapshot, while the Reader is in mid-call.
C10_Witness ==
    /\ wpc = "op"
    /\ bufs[wnew].ver >= 1
    /\ rpc = "swap"
    /\ makes = 3

\* The handles held outside the pool channel.
OutsidePool == {wprev, wnew, wold, rprev, rnew, rold, slot} \cap BufIds

\* C11 (reclaim rule): a handle is sent to the pool only when it is the
\* only handle to its buffer, at both send sites; every buffer in the pool
\* channel is there once and is not Writer.prev_buf, not in the slot and not
\* held by the Reader.
C11_ReclaimRule ==
    /\ \A i \in 1 .. Len(chan) :
          /\ chan[i] \notin OutsidePool
          /\ StrongCount(chan[i]) = 1
    /\ wpc = "send" => (StrongCount(wold) = 1 /\ wold \notin {wprev, slot, rprev, rnew, rold})
    /\ rpc = "send" => (StrongCount(rold) = 1 /\ rold \notin {rprev, wprev, slot, wnew, wold})

\* Both send sites are about to push at once, with a buffer already pooled.
C11_Witness ==
    /\ wpc = "send" /\ rpc = "send"
    /\ Len(chan) = 1
    /\ wold # rold

\* C12 (the lock protects only the handle swap): the Writer holds the slot
\* mutex exactly while it is between lock() and the end of the replace
\* statement, the Reader exactly while it is between lock() and the end of
\* the take statement; in particular not while make_buf or write_op runs
\* and not while either side sends to the pool channel.
C12_LockOnlyAroundSwap ==
    /\ (mutex = "W") <=> (wpc \in {"swap", "unlock"})
    /\ (mutex = "R") <=> (rpc \in {"take", "unlock"})
    /\ wpc \in {"make", "op", "setprev", "send"} => mutex # "W"
    /\ rpc = "send" => mutex # "R"

\* The Writer sends a reclaimed handle to the pool channel while the Reader
\* holds the mutex inside get: the send is outside the Writer's lock.
C12_Witness ==
    /\ mutex = "R" /\ rpc = "take"
    /\ wpc = "send"

\* C13 as claimed: in every reachable state the slot holds a handle.
C13_AsClaimed == slot \in BufIds

\* C13 (slot contents), amended: the slot holds no handle at construction
\* and until the first publish; a take by the Reader leaves it empty; a
\* publish fills it, and a resident handle is always the latest published
\* snapshot (also Writer.prev_buf, except while the next write_new is between
\* updating prev_buf and publishing). A publish gets back the previous
\* publish's handle if the Reader has not taken it, and nothing if the
\* Reader has taken it or if it is the first publish.
C13_SlotZeroOrOne ==
    /\ slot \in BufIds \cup {NoBuf}
    /\ npub = 0 => slot = NoBuf
    /\ rpc = "unlock" => slot = NoBuf
    /\ wpc = "unlock" => slot # NoBuf
    /\ slot # NoBuf => bufs[slot].ver = npub
    /\ (slot # NoBuf /\ wpc \notin {"lock", "swap"}) => slot = wprev
    /\ wpc = "unlock" =>
          IF wold # NoBuf
          THEN bufs[wold].ver = npub - 1
          ELSE \/ npub = 1
               \/ \E h \in {rprev, rnew} \cap BufIds : bufs[h].ver = npub - 1

\* The third publish found the slot empty, because the Reader had taken the
\* second one: replace returned None.
C13_Witness ==
    /\ wpc = "unlock"
    /\ npub = 3
    /\ wold = NoBuf
    /\ rpc = "idle" /\ ret.ver = 2

\* C14 (re-polling without new data): a read_newest that follows an earlier
\* read_newest, and whose take finds that nothing has been published since
\* the snapshot the earlier call returned, changes nothing: none of its steps
\* alters the slot, the pool channel, Writer.prev_buf or Reader.prev_buf, it
\* never reaches the exchange of prev_buf or the send to the pool, and it
\* returns the same buffer with the same value as the earlier call.
C14_RepollChangesNothing ==
    [][ ( /\ rpc # "idle" /\ rpc' # rpc
          /\ rctx.pv # Unwritten
          /\ IF rpc \in {"lock", "take"} THEN npub = rctx.pv
                                         ELSE rctx.tp = rctx.pv )
        => /\ slot' = slot /\ chan' = chan
           /\ wprev' = wprev /\ rprev' = rprev
           /\ rpc' \notin {"swap", "send"}
           /\ (rpc = "take" => rnew' = NoBuf)
           /\ (rpc' = "idle" => ret' = ret) ]_vars

\* A read_newest has returned the second published snapshot for the second
\* time, nothing having been published between the two calls, while a third
\* write_new was inside its callback and the pool held a handle.
C14_Witness ==
    /\ Returned
    /\ rctx.pv = 2 /\ rctx.tp = 2 /\ ret.ver = 2
    /\ wpc = "op"
    /\ slot = NoBuf
    /\ chan # << >>

\* C15 (no buffer is lost): while no step has failed, every buffer created
\* so far (the initial one and one per make_buf call) still has a handle in
\* Writer.prev_buf, the Writer's scratch, the slot, the Reader or the pool
\* channel, so the live buffers number 1 + makes; and when write_new is about
\* to overwrite Writer.prev_buf, the old prev_buf has another handle (in the
\* slot or with the Reader), so the overwrite frees nothing.
C15_NoBufferLost ==
    ~failed =>
        /\ Live = 0 .. makes
        /\ Cardinality(Live) = 1 + makes
        /\ wpc = "setprev" =>
              /\ StrongCount(wprev) >= 2
              /\ wprev \in {slot, rprev, rnew}

\* Four buffers exist after three make_buf calls, one of them waiting in the
\* pool channel, and write_new is about to overwrite prev_buf, whose buffer
\* the Reader also holds.
C15_Witness ==
    /\ makes = 3
    /\ Cardinality(Live) = 4
    /\ chan # << >>
    /\ wpc = "setprev"
    /\ wprev \in {rprev, rnew}

\* C16 (acquire reuses before it constructs): the acquire step of write_new
\* (try_recv) takes the oldest pooled handle whenever the pool channel is
\* non-empty at that moment, and then make_buf is not invoked; it goes on to
\* make_buf only when the channel is empty at that moment; make_buf is
\* invoked nowhere else, and its argument holds the most recently published
\* value (the result of the previous write_new, or init).
C16_ReuseBeforeMake ==
    /\ [][ (wpc = "recv" /\ wpc' # "recv") =>
              IF chan # << >>
              THEN /\ wpc' # "make"
                   /\ wnew' = Head(chan) /\ chan' = Tail(chan)
                   /\ makes' = makes
              ELSE /\ wpc' = "make"
                   /\ chan' = chan /\ wnew' = wnew ]_vars
    /\ [][ makes' # makes =>
              /\ wpc = "make" /\ makes' = makes + 1
              /\ bufs'[wnew'].val \in {bufs[MakeArg].val, 0} ]_vars
    /\ [](wpc = "make" =>
              /\ npub = wcount - 1
              /\ bufs[MakeArg].ver = npub
              /\ bufs[MakeArg].val = Published(npub))

\* The third write_new found the pool channel empty and is about to call
\* make_buf on the second published value, while the Reader still holds the
\* initial snapshot.
C16_Witness ==
    /\ wpc = "make"
    /\ wcount = 3 /\ npub = 2
    /\ chan = << >>
    /\ bufs[rprev].ver = 0
    /\ makes = 2

\* The second and the third write_new have each reused a pooled handle: only
\* the first one called make_buf.
C16_WitnessReuse ==
    /\ wpc = "getmut"
    /\ wcount = 3
    /\ makes = 1
    /\ wnew \in BufIds

\* C17 (Reader activity does not influence what is written): the `old`
\* argument of the k-th update callback is the value written by the (k-1)-th
\* one (init for the first), in a buffer last written by that call; so the
\* sequence of written and published values is determined by init and the
\* sequence of callbacks alone, whatever steps the Reader has taken and
\* whichever buffer serves as scratch.
C17_WritesIndependentOfReader ==
    /\ Len(hist) \in {wcount, wcount + 1}
    /\ \A k \in 1 .. Len(hist) - 1 :
          /\ hist[k + 1] = ApplyFn(fs[k], hist[k])
          /\ hist[k + 1] = Compose(SubSeq(fs, 1, k), hist[1])
    /\ wpc = "op" =>
          /\ bufs[OldArg].ver = wcount - 1
          /\ bufs[OldArg].val = Published(wcount - 1)
    /\ slot # NoBuf => bufs[slot].val = Published(npub)

\* The fourth callback is about to run on a reused buffer with stale
\* contents that differ from its `old` argument, after two different
\* callbacks, while the Reader is in the middle of a read_newest.
C17_Witness ==
    /\ wpc = "op" /\ wcount = 4
    /\ makes = 2
    /\ bufs[WriteTarget].ver \in 1 .. 2
    /\ bufs[WriteTarget].val # bufs[OldArg].val
    /\ fs[1] # fs[2]
    /\ rpc = "swap"

\* C18 (operations after the counterpart is dropped), as claimed: a
\* read_newest started after the Writer was dropped does not panic, and when
\* it has returned, it has returned the last published snapshot; no write_new
\* fails after the Reader was dropped.
C18_AsClaimed ==
    /\ rctx.wst = "dropped" => rpc # "panic"
    /\ (Returned /\ rctx.wst = "dropped") =>
          (ret.ver = npub /\ ret.val = Published(npub))
    /\ rpc = "dropped" => (wpc # "panic" /\ ~failed)

\* The parts of C18 the code does provide: after the Reader is dropped no
\* step of write_new fails (the Writer owns the Receiver, so its own send
\* succeeds), and a read_newest started after the Writer was dropped panics
\* only at its send, that is only when a snapshot was pending in the slot;
\* when it finds the slot empty it returns the last published snapshot.
C18_WhatHolds ==
    /\ rpc = "dropped" => (wpc # "panic" /\ ~failed)
    /\ wpc # "panic"
    /\ (Returned /\ rctx.wst = "dropped") =>
          (ret.ver = npub /\ ret.val = Published(npub))
    /\ [][ (rpc' = "panic" /\ rpc # "panic") =>
              /\ rpc = "send" /\ ~ReceiverAlive
              /\ rctx.wst = "dropped" =>
                    (bufs[rprev].ver = npub /\ rctx.tp = npub) ]_vars

\* read_newest has panicked at its send: it was started after the Writer was
\* dropped and found the last published snapshot pending in the slot.
C18_PanicReached ==
    /\ rpc = "panic"
    /\ wpc = "dropped"
    /\ rctx.wst = "dropped"
    /\ bufs[rprev].ver = npub

\* write_new calls have completed after the Reader was dropped, the last one
\* having sent the handle it got back from the slot to the pool.
C18_WriterGoesOn ==
    /\ rpc = "dropped"
    /\ wpc = "idle" /\ wdone = 3
    /\ chan # << >>

\* C19 (a failed write publishes nothing), as claimed: once make_buf or the
\* update callback has panicked inside write_new, nothing has been published
\* by that call (the slot and Writer.prev_buf, if still there, hold the
\* snapshot published before it), the Writer does not hold the mutex, and a
\* read_newest started afterwards does not panic and, when it has returned,
\* has returned the snapshot published before the failed write.
C19_AsClaimed ==
    /\ wpc = "failed" =>
          /\ mutex # "W"
          /\ npub = wcount - 1
          /\ bufs[wprev].ver = npub
          /\ slot # NoBuf => bufs[slot].ver = npub
    /\ rctx.wst \in {"failed", "unwound"} => rpc # "panic"
    /\ (Returned /\ rctx.wst \in {"failed", "unwound"}) =>
          (ret.ver = npub /\ ret.val = Published(npub))

\* The parts of C19 the code does provide: the panicking step changes neither
\* the slot, nor Writer.prev_buf, nor the Reader's buffer, nor the mutex,
\* which the Writer does not hold; while the failed Writer is kept, every
\* read_newest completes; a read_newest that returns gives the snapshot
\* published before the failed write. A read_newest panics only at its send,
\* after the Writer is gone.
C19_WhatHolds ==
    /\ wpc = "failed" =>
          /\ mutex # "W"
          /\ npub = wcount - 1
          /\ bufs[wprev].ver = npub
          /\ slot # NoBuf => bufs[slot].ver = npub
    /\ (Returned /\ rctx.wst \in {"failed", "unwound"}) =>
          (ret.ver = npub /\ ret.val = Published(npub))
    /\ rpc = "panic" => ~ReceiverAlive
    /\ [][ (wpc' = "failed" /\ wpc # "failed") =>
              /\ slot' = slot /\ wprev' = wprev /\ rprev' = rprev
              /\ mutex' = mutex /\ chan' = chan
              /\ ret' = ret /\ npub' = npub /\ bufs' = bufs ]_vars

\* A read_newest started after the failed write_new unwound has panicked at
\* its send: the snapshot published before the failed write was pending in
\* the slot.
C19_PanicReached ==
    /\ rpc = "panic"
    /\ wpc = "unwound"
    /\ rctx.wst = "unwound"
    /\ bufs[rprev].ver = npub
    /\ npub = wcount - 1

\* The update callback panicked and its scratch buffer was freed by the
\* unwinding; the Writer was kept, and a read_newest started afterwards has
\* returned the second published snapshot while the pool holds a handle.
C19_ReadAfterFailure ==
    /\ wpc = "failed"
    /\ Returned /\ rctx.wst = "failed"
    /\ ret.ver = npub /\ npub = 2
    /\ chan # << >>
    /\ Cardinality(Live) < 1 + makes

====
